---- MODULE Spec2Model ----
(***************************************************************************)
(* Credential authentication of modulo-login-nestjs: AuthService           *)
(* (register, login, validateUser), UserService, JwtStrategy.validate and  *)
(* the relational store they share (users, user_security, roles,          *)
(* _UserRoles).  Every await of the TypeScript code is a point where       *)
(* other requests interleave; the synchronous code between two awaits is   *)
(* one action.  Nullable columns and optional values are sets with at      *)
(* most one element.                                                       *)
(***************************************************************************)
EXTENDS Naturals, Sequences, FiniteSets

(* ------------------------------ bounds --------------------------------- *)
\* Request slots of the multi-step handlers (register, login).
MaxCalls == 2
\* Constructions of the process (AuthService and JwtStrategy constructors).
MaxBoots == 2
\* External deactivations of an Identity (isActive := false).
MaxDeactivations == 1
\* Faults of the hashing library and of the store that are not caused by
\* the rows themselves.
MaxFaults == 1
\* Profile updates.
MaxUpdates == 1
\* Request slots of register and login when the whole interface is explored.
MaxApiCalls == 1
\* Free leading characters of a candidate password.
MaxPrefix == 3

Calls == 1..MaxCalls
ApiCalls == {c \in Calls : c <= MaxApiCalls}

(* --------------------------- input domains ----------------------------- *)
Emails == {"a@x.com", "b@x.com"}
Passwords == {"Abcdef1!", "Abcdef1!x"}
RegisterPasswords == {"Abcdef1!"}
PepperStrings == {"", "pepper-1", "pepper-2"}
JwtSecrets == {"", "jwt-key"}

(* ---------------------- argon2 parameters (register) ------------------- *)
MemoryCost == 131072
TimeCost == 10
Parallelism == 1

(* ------------------------------ the store ------------------------------ *)
RoleUser == [id |-> "role-user", name |-> "USER"]
RoleAdmin == [id |-> "role-admin", name |-> "ADMIN"]

\* argon2.hash(plain, {type: argon2id, memoryCost, timeCost, parallelism, secret}):
\* the encoded hash carries the algorithm and its parameters; the tag is a
\* one-way function of the plaintext and the secret.  (The random salt is
\* stored in the encoded hash and read back from it by verify; it does not
\* decide which plaintext and secret verify, and is left out.)
Argon2Hash(plain, secret) ==
    [type |-> "argon2id", m |-> MemoryCost, t |-> TimeCost, p |-> Parallelism,
     tag |-> <<secret, plain>>]

\* argon2.verify(encoded, plain, {secret}): recompute the tag under the encoded
\* parameters and compare.
Argon2Verify(encoded, plain, secret) ==
    encoded.tag = <<secret, plain>>

\* A users row (columns of the table after the last migration).
UserRow(id, email, firstName, lastName) ==
    [id |-> id, email |-> email, firstName |-> firstName, lastName |-> lastName,
     picture |-> {}, isActive |-> TRUE, lastLogin |-> {}]

\* A user_security row; password is nullable.
SecurityRow(id, userId, password) ==
    [id |-> id, userId |-> userId, password |-> password]

\* A _UserRoles row: A references roles(id), B references users(id).
EdgeRow(roleId, userId) == [A |-> roleId, B |-> userId]

NoWrites == [users |-> {}, security |-> {}, userRoles |-> {}]

(* ------------------------------ state ---------------------------------- *)
VARIABLES
    up,            \* the process is constructed and serving requests
    pepper,        \* AuthService.pepper ("" while no process is up)
    jwtSecret,     \* the signing key read by JwtStrategy ("" while down)
    boots,         \* constructions so far
    db,            \* the committed store: users, security, roles, userRoles
    clock,         \* source of uuidv7(): time-ordered, strictly increasing
    pc,            \* per request slot: the await the handler is suspended at
    req,           \* per request slot: the operation and its DTO
    loc,           \* per request slot: the handler's local variables
    tx,            \* per request slot: uncommitted writes of its transaction
    ret,           \* per request slot: {} until the handler returns or throws
    hist,          \* per request slot: the awaited calls made, in order
    log,           \* per request slot: what the handler gave to the Logger
    reply,         \* the outcome of the last single-await operation
    provisioned,   \* ids of the users rows committed by register
    deactivations, \* external deactivations so far
    updates,       \* profile updates so far
    faults         \* injected library and store faults so far

vars == <<up, pepper, jwtSecret, boots, db, clock, pc, req, loc, tx, ret, hist,
          log, reply, provisioned, deactivations, updates, faults>>

procVars == <<up, pepper, jwtSecret, boots>>
callVars == <<pc, req, loc, tx, ret, hist, log>>

(* --------------------------- HTTP exceptions --------------------------- *)
ConflictException(message) ==
    [status |-> 409, error |-> "Conflict", message |-> message]
UnauthorizedException(message) ==
    [status |-> 401, error |-> "Unauthorized", message |-> message]
InternalServerErrorException(message) ==
    [status |-> 500, error |-> "Internal Server Error", message |-> message]
NotFoundException(message) ==
    [status |-> 404, error |-> "Not Found", message |-> message]

Returned(value) == {[ok |-> TRUE, value |-> value]}
Thrown(exception) == {[ok |-> FALSE, error |-> exception]}

MsgDuplicate == "El correo electronico ya esta registrado."
MsgOverloaded == "El servidor esta temporalmente sobrecargado. Intente mas tarde."
MsgSecurity == "Error interno de seguridad al procesar credenciales."
MsgRoles == "Error de configuracion del sistema (Roles)."
MsgRegister == "No se pudo completar el registro. Intente nuevamente."
MsgCredentials == "Credenciales invalidas"

(* ----------------------------- store reads ----------------------------- *)
\* prisma.user.findUnique({where: {email}}) and ({where: {id}}): 0 or 1 row.
UsersByEmail(d, email) == {u \in d.users : u.email = email}
UsersById(d, id) == {u \in d.users : u.id = id}

\* The roles table in its storage order.
RoleTable == <<RoleUser, RoleAdmin>>

\* include: {roles: true}: the roles rows joined through _UserRoles (the
\* committed edges and, inside a transaction, its own uncommitted ones).
RolesOf(d, w, userId) ==
    LET joined == {r \in d.roles : EdgeRow(r.id, userId) \in d.userRoles \cup w.userRoles}
        Keep(r) == r \in joined
    IN  SelectSeq(RoleTable, Keep)

\* include: {security: true}: the user_security row of the user, if any.
SecurityOf(d, userId) == {s \in d.security : s.userId = userId}

\* A users row extended with the included relation `roles`.
WithRoles(u, roles) ==
    [f \in DOMAIN u \cup {"roles"} |-> IF f = "roles" THEN roles ELSE u[f]]

\* A users row extended with the included relations `security` and `roles`.
WithRelations(u, security, roles) ==
    [f \in DOMAIN u \cup {"security", "roles"} |->
        IF f = "security" THEN security ELSE IF f = "roles" THEN roles ELSE u[f]]

\* UserService.exists: count({where: {email}}) > 0.
Exists(d, email) == Cardinality(UsersByEmail(d, email)) > 0

(* ---------------------------- transactions ----------------------------- *)
\* Commit of prisma.$transaction: the buffered rows become visible together.
CommitTx(d, w) ==
    [d EXCEPT !.users = @ \cup w.users,
              !.security = @ \cup w.security,
              !.userRoles = @ \cup w.userRoles]

\* A rollback that undoes the nested writes but not the users row, as when
\* the writes are issued outside one transaction.
RollbackKeepsUser(d, w) == [d EXCEPT !.users = @ \cup w.users]

\* Rollback of prisma.$transaction: none of the buffered rows survives.
Rollback(d, w) == d

(* ------------------------------ faults --------------------------------- *)
\* What argon2.hash may throw: an Error whose message names the cause, or a
\* value that is no Error.  A message is its sequence of words.
HashFaults ==
    { [isError |-> TRUE, message |-> <<"out", "of", "memory">>],
      [isError |-> TRUE, message |-> <<"Memory", "allocation", "error">>],
      [isError |-> TRUE, message |-> <<"Threading", "failure">>],
      [isError |-> FALSE, message |-> <<"native", "abort">>] }

\* String.prototype.includes on a message, at word granularity.
Includes(message, word) == \E i \in 1..Len(message) : message[i] = word

\* Errors of the store.  known: instanceof PrismaClientKnownRequestError;
\* target: error.meta?.target, absent or a list of column names.
DbError(known, code, target) == [known |-> known, code |-> code, target |-> target]
UniqueEmailViolation == DbError(TRUE, "P2002", {<<"email">>})
RecordNotFound == DbError(TRUE, "P2025", {})

\* Faults of the store that do not depend on the rows the transaction writes.
StorageFaults ==
    { DbError(TRUE, "P2002", {<<"id">>}),
      DbError(TRUE, "P2002", {}),
      DbError(FALSE, "", {}) }

(* ------------------------------- Init ---------------------------------- *)
\* Rows the store may hold before the process starts: the seeded roles, and
\* one Identity that did not come from register (created when the password
\* column was nullable, or through an OAuth account): with no user_security
\* row, with a row whose password is NULL, or with a hash.
LegacyUser == UserRow(0, "b@x.com", "Bob", "Legacy")

SeededRoles == {{RoleAdmin}, {RoleUser, RoleAdmin}}

LegacySecurity ==
    { {},
      {SecurityRow(0, 0, {})},
      {SecurityRow(0, 0, {Argon2Hash("Abcdef1!", "pepper-1")})} }

InitialStores ==
    { [users |-> {LegacyUser}, security |-> s, roles |-> r,
       userRoles |-> {EdgeRow(x.id, 0) : x \in r}] :
        s \in LegacySecurity, r \in SeededRoles }

NoRequest == [op |-> "none", email |-> "", password |-> "", firstName |-> "", lastName |-> ""]
NoLocals ==
    [exists |-> {}, hashedPassword |-> {}, hashError |-> {}, userId |-> {},
     securityId |-> {}, dbError |-> {}, userWithRelations |-> {}, cause |-> "",
     isValid |-> {}, pepper |-> ""]
NoReply == [op |-> "none", outcome |-> {}]

Init ==
    /\ up = FALSE
    /\ pepper = ""
    /\ jwtSecret = ""
    /\ boots = 0
    /\ db \in InitialStores
    /\ clock = 1
    /\ pc = [c \in Calls |-> "idle"]
    /\ req = [c \in Calls |-> NoRequest]
    /\ loc = [c \in Calls |-> NoLocals]
    /\ tx = [c \in Calls |-> NoWrites]
    /\ ret = [c \in Calls |-> {}]
    /\ hist = [c \in Calls |-> <<>>]
    /\ log = [c \in Calls |-> {}]
    /\ reply = NoReply
    /\ provisioned = {}
    /\ deactivations = 0
    /\ updates = 0
    /\ faults = 0

(* --------------------------- process lifecycle ------------------------- *)
\* A start that checks AUTH_PEPPER alone.
SecretsPresentPepperOnly(pepperString, secret) == pepperString /= ""

\* The constructors of AuthService and JwtStrategy, run once per process
\* start: either secret absent or empty and the process does not start.
SecretsPresent(pepperString, secret) == pepperString /= "" /\ secret /= ""

Bootstrap(pepperString, secret) ==
    /\ ~up
    /\ boots < MaxBoots
    /\ boots' = boots + 1
    /\ IF SecretsPresent(pepperString, secret)
       THEN up' = TRUE /\ pepper' = pepperString /\ jwtSecret' = secret
       ELSE UNCHANGED <<up, pepper, jwtSecret>>
    /\ UNCHANGED <<db, clock, callVars, reply, provisioned, deactivations, updates, faults>>

InFlight(c) == pc[c] \notin {"idle", "done", "killed"}

\* Requests take the request slots in order of arrival.
NextSlot(c) == pc[c] = "idle" /\ \A d \in Calls : d < c => pc[d] /= "idle"

\* The process ends: requests in flight get no answer and their state
\* leaves memory with the secrets; the store rolls back their open
\* transactions.
Exit ==
    /\ up
    /\ up' = FALSE
    /\ pepper' = ""
    /\ jwtSecret' = ""
    /\ pc' = [c \in Calls |-> IF InFlight(c) THEN "killed" ELSE pc[c]]
    /\ req' = [c \in Calls |-> IF InFlight(c) THEN NoRequest ELSE req[c]]
    /\ loc' = [c \in Calls |-> IF InFlight(c) THEN NoLocals ELSE loc[c]]
    /\ hist' = [c \in Calls |-> IF InFlight(c) THEN <<>> ELSE hist[c]]
    /\ tx' = [c \in Calls |-> NoWrites]
    /\ db' = db
    /\ UNCHANGED <<boots, clock, ret, log, reply, provisioned, deactivations, updates, faults>>

(* ------------------------ AuthService.register ------------------------- *)
LogEntry(level, message, detail) ==
    [level |-> level, message |-> message, detail |-> detail]

\* The catch block without the memory/allocation test.
ClassifyHashErrorUnsorted(error) ==
    [logged |-> {LogEntry("error", "Fallo critico en Argon2 (Hashing)", {error})},
     thrown |-> InternalServerErrorException(MsgSecurity)]

\* The catch block testing the message for 'memory' alone.
ClassifyHashErrorMemoryOnly(error) ==
    IF error.isError
    THEN [logged |-> {LogEntry("error", "Fallo critico en Argon2 (Hashing)", {error})},
          thrown |->
            IF Len(error.message) > 0 /\ Includes(error.message, "memory")
            THEN InternalServerErrorException(MsgOverloaded)
            ELSE InternalServerErrorException(MsgSecurity)]
    ELSE [logged |-> {LogEntry("error", "Error desconocido al hashear", {error})},
          thrown |-> InternalServerErrorException(MsgSecurity)]

\* The catch block of the hashing step: what is logged and what is thrown.
ClassifyHashError(error) ==
    IF error.isError
    THEN [logged |-> {LogEntry("error", "Fallo critico en Argon2 (Hashing)", {error})},
          thrown |->
            IF Len(error.message) > 0
               /\ (Includes(error.message, "memory") \/ Includes(error.message, "allocation"))
            THEN InternalServerErrorException(MsgOverloaded)
            ELSE InternalServerErrorException(MsgSecurity)]
    ELSE [logged |-> {LogEntry("error", "Error desconocido al hashear", {error})},
          thrown |-> InternalServerErrorException(MsgSecurity)]

\* target && target.includes('email')
TargetIncludesEmail(error) ==
    \E t \in error.target : \E i \in 1..Len(t) : t[i] = "email"

\* The catch block without its P2002 branch.
TranslateWithoutRaceBranch(error, email) ==
    IF error.known /\ error.code = "P2025"
    THEN [logged |-> {LogEntry("error", "FATAL: No se encuentra el rol USER. Ejecutar seed de DB.", {})},
          thrown |-> InternalServerErrorException(MsgRoles)]
    ELSE [logged |-> {LogEntry("error", "Error no controlado en transaccion de registro", {error})},
          thrown |-> InternalServerErrorException(MsgRegister)]

\* The catch block with the P2002 branch taken whatever the target.
TranslateAnyUniqueAsDuplicate(error, email) ==
    IF error.known /\ error.code = "P2002"
    THEN [logged |-> {LogEntry("warn", "Intento de registro duplicado (Race Condition)", {email})},
          thrown |-> ConflictException(MsgDuplicate)]
    ELSE TranslateWithoutRaceBranch(error, email)

\* The catch block of the provisioning transaction.
TranslateProvisionError(error, email) ==
    IF error.known /\ error.code = "P2002" /\ TargetIncludesEmail(error)
    THEN [logged |-> {LogEntry("warn", "Intento de registro duplicado (Race Condition)", {email})},
          thrown |-> ConflictException(MsgDuplicate)]
    ELSE IF error.known /\ error.code = "P2025"
    THEN [logged |-> {LogEntry("error", "FATAL: No se encuentra el rol USER. Ejecutar seed de DB.", {})},
          thrown |-> InternalServerErrorException(MsgRoles)]
    ELSE [logged |-> {LogEntry("error", "Error no controlado en transaccion de registro", {error})},
          thrown |-> InternalServerErrorException(MsgRegister)]

RegisterDtos ==
    { [op |-> "register", email |-> e, password |-> p, firstName |-> "Ana", lastName |-> "Lopez"] :
        e \in Emails, p \in RegisterPasswords }

\* A handler that goes on to hash whatever the pre-check answered.
PreCheckIgnored(exists) == {}

\* if (exists) throw new ConflictException(...): what the pre-check throws.
PreCheck(exists) ==
    IF exists THEN Thrown(ConflictException(MsgDuplicate)) ELSE {}

\* The request arrives and awaits userService.exists(dto.email); a true
\* answer throws at once.
Register(c, dto) ==
    /\ up
    /\ NextSlot(c)
    /\ req' = [req EXCEPT ![c] = dto]
    /\ hist' = [hist EXCEPT ![c] = Append(@, "exists")]
    /\ LET exists == Exists(db, dto.email) IN
        /\ loc' = [loc EXCEPT ![c].exists = {exists}, ![c].pepper = pepper]
        /\ IF PreCheck(exists) /= {}
           THEN /\ pc' = [pc EXCEPT ![c] = "done"]
                /\ ret' = [ret EXCEPT ![c] = PreCheck(exists)]
           ELSE /\ pc' = [pc EXCEPT ![c] = "hash"]
                /\ UNCHANGED ret
    /\ UNCHANGED <<procVars, db, clock, tx, log, reply, provisioned, deactivations, updates, faults>>

\* await argon2.hash(dto.password, {..., secret: this.pepper}) returns.
HashReturns(c) ==
    /\ pc[c] = "hash"
    /\ hist' = [hist EXCEPT ![c] = Append(@, "hash")]
    /\ loc' = [loc EXCEPT ![c].hashedPassword = {Argon2Hash(req[c].password, pepper)}]
    /\ pc' = [pc EXCEPT ![c] = "tx"]
    /\ UNCHANGED <<procVars, db, clock, req, tx, ret, log, reply, provisioned,
                   deactivations, updates, faults>>

\* await argon2.hash throws: the catch block logs and rethrows.
HashThrows(c, error) ==
    /\ pc[c] = "hash"
    /\ faults < MaxFaults
    /\ hist' = [hist EXCEPT ![c] = Append(@, "hash")]
    /\ loc' = [loc EXCEPT ![c].hashError = {error}]
    /\ log' = [log EXCEPT ![c] = @ \cup ClassifyHashError(error).logged]
    /\ ret' = [ret EXCEPT ![c] = Thrown(ClassifyHashError(error).thrown)]
    /\ pc' = [pc EXCEPT ![c] = "done"]
    /\ faults' = faults + 1
    /\ UNCHANGED <<procVars, db, clock, req, tx, reply, provisioned, deactivations, updates>>

\* How many times the handler awaited the call named `name`.
Awaited(c, name) == Cardinality({i \in 1..Len(hist[c]) : hist[c][i] = name})

\* A catch block that opens the transaction once more after the first
\* unique-constraint violation.
TxFailsRetrying(c, error) ==
    /\ db' = Rollback(db, tx[c])
    /\ tx' = [tx EXCEPT ![c] = NoWrites]
    /\ loc' = [loc EXCEPT ![c].dbError = {error}]
    /\ IF error = UniqueEmailViolation /\ Awaited(c, "transaction") = 0
       THEN /\ pc' = [pc EXCEPT ![c] = "tx"]
            /\ UNCHANGED <<log, ret>>
       ELSE /\ log' = [log EXCEPT ![c] = @ \cup TranslateProvisionError(error, req[c].email).logged]
            /\ ret' = [ret EXCEPT ![c] = Thrown(TranslateProvisionError(error, req[c].email).thrown)]
            /\ pc' = [pc EXCEPT ![c] = "done"]

\* The transaction of call c fails with `error`: it is rolled back and the
\* catch block translates the error.
TxFails(c, error) ==
    /\ db' = Rollback(db, tx[c])
    /\ tx' = [tx EXCEPT ![c] = NoWrites]
    /\ loc' = [loc EXCEPT ![c].dbError = {error}]
    /\ log' = [log EXCEPT ![c] = @ \cup TranslateProvisionError(error, req[c].email).logged]
    /\ ret' = [ret EXCEPT ![c] = Thrown(TranslateProvisionError(error, req[c].email).thrown)]
    /\ pc' = [pc EXCEPT ![c] = "done"]

\* An uncommitted insert of the same email by another transaction holds the
\* unique index entry: the insert waits until that transaction ends.
EmailLockedByOther(c, email) ==
    \E d \in Calls \ {c} : \E u \in tx[d].users : u.email = email

\* prisma.$transaction starts; the callback draws both ids and the nested
\* create inserts the users row, checked against the unique index on email.
TxInsertUser(c) ==
    /\ pc[c] = "tx"
    /\ ~EmailLockedByOther(c, req[c].email)
    /\ clock' = clock + 2
    /\ hist' = [hist EXCEPT ![c] = Append(@, "transaction")]
    /\ IF Exists(db, req[c].email)
       THEN /\ TxFails(c, UniqueEmailViolation)
            /\ UNCHANGED <<procVars, req, reply, provisioned, deactivations, updates, faults>>
       ELSE /\ tx' = [tx EXCEPT ![c].users =
                        {UserRow(clock, req[c].email, req[c].firstName, req[c].lastName)}]
            /\ loc' = [loc EXCEPT ![c].userId = {clock}, ![c].securityId = {clock + 1}]
            /\ pc' = [pc EXCEPT ![c] = "tx_security"]
            /\ UNCHANGED <<procVars, db, req, ret, log, reply, provisioned,
                           deactivations, updates, faults>>

\* security: {create: {id: uuidv7(), password: hashedPassword}}.
TxInsertSecurity(c) ==
    /\ pc[c] = "tx_security"
    /\ \E userId \in loc[c].userId, securityId \in loc[c].securityId :
        tx' = [tx EXCEPT ![c].security =
                 {SecurityRow(securityId, userId, loc[c].hashedPassword)}]
    /\ pc' = [pc EXCEPT ![c] = "tx_role"]
    /\ UNCHANGED <<procVars, db, clock, req, loc, ret, hist, log, reply, provisioned,
                   deactivations, updates, faults>>

\* roles: {connect: {name: 'USER'}}: the role is looked up by name; when it
\* is missing the create fails with P2025.
TxConnectRole(c) ==
    /\ pc[c] = "tx_role"
    /\ LET found == {r \in db.roles : r.name = "USER"} IN
        IF found = {}
        THEN /\ TxFails(c, RecordNotFound)
             /\ UNCHANGED <<procVars, clock, req, hist, reply, provisioned,
                            deactivations, updates, faults>>
        ELSE /\ \E userId \in loc[c].userId :
                  tx' = [tx EXCEPT ![c].userRoles = {EdgeRow(r.id, userId) : r \in found}]
             /\ pc' = [pc EXCEPT ![c] = "tx_commit"]
             /\ UNCHANGED <<procVars, db, clock, req, loc, ret, hist, log, reply,
                            provisioned, deactivations, updates, faults>>

\* The created row returned with every relation included.
CreatedUserWithSecurity(d, w) ==
    LET u == CHOOSE x \in w.users : TRUE
    IN  WithRelations(u, w.security, RolesOf(d, w, u.id))

\* The created row as the create returns it: include: {roles: true}.
CreatedUser(d, w) ==
    LET u == CHOOSE x \in w.users : TRUE IN WithRoles(u, RolesOf(d, w, u.id))

\* The transaction commits and register returns newUser.
TxCommit(c) ==
    /\ pc[c] = "tx_commit"
    /\ db' = CommitTx(db, tx[c])
    /\ ret' = [ret EXCEPT ![c] = Returned(CreatedUser(db, tx[c]))]
    /\ tx' = [tx EXCEPT ![c] = NoWrites]
    /\ provisioned' = provisioned \cup loc[c].userId
    /\ pc' = [pc EXCEPT ![c] = "done"]
    /\ UNCHANGED <<procVars, clock, req, loc, hist, log, reply, deactivations, updates, faults>>

InTransaction(c) == pc[c] \in {"tx_security", "tx_role", "tx_commit"}

\* The store fails the open transaction for a reason of its own.
TxFault(c, error) ==
    /\ InTransaction(c)
    /\ faults < MaxFaults
    /\ TxFails(c, error)
    /\ faults' = faults + 1
    /\ UNCHANGED <<procVars, clock, req, hist, reply, provisioned, deactivations, updates>>

(* -------------------------- AuthService.login -------------------------- *)
LoginDtos ==
    { [op |-> "login", email |-> e, password |-> p, firstName |-> "", lastName |-> ""] :
        e \in Emails, p \in Passwords }

\* findUnique({where: {email}, include: {security: true, roles: true}}).
FindWithRelations(d, email) ==
    {WithRelations(u, SecurityOf(d, u.id), RolesOf(d, NoWrites, u.id)) :
        u \in UsersByEmail(d, email)}

\* The guards without the isActive check.
EarlyNullIgnoringActive(found) ==
    IF found = {} THEN "absent"
    ELSE LET u == CHOOSE x \in found : TRUE IN
         IF u.security = {} THEN "no-security"
         ELSE IF \A s \in u.security : s.password = {} THEN "no-password"
         ELSE ""

\* Why validateUser returns null before any hash comparison ("" when it
\* goes on to argon2.verify).
EarlyNull(found) ==
    IF found = {} THEN "absent"
    ELSE LET u == CHOOSE x \in found : TRUE IN
         IF ~u.isActive THEN "inactive"
         ELSE IF u.security = {} THEN "no-security"
         ELSE IF \A s \in u.security : s.password = {} THEN "no-password"
         ELSE ""

\* A failure that tells an unknown or disabled account from a wrong password.
LoginFailureByCause(cause) ==
    IF cause = "mismatch"
    THEN UnauthorizedException(MsgCredentials)
    ELSE UnauthorizedException("Cuenta inexistente o deshabilitada")

\* What login throws when validateUser returned null.
LoginFailure(cause) == UnauthorizedException(MsgCredentials)

\* The request arrives and validateUser awaits the lookup; the three guards
\* run on its result.
Login(c, dto) ==
    /\ up
    /\ NextSlot(c)
    /\ req' = [req EXCEPT ![c] = dto]
    /\ hist' = [hist EXCEPT ![c] = Append(@, "findUnique")]
    /\ LET found == FindWithRelations(db, dto.email)
           cause == EarlyNull(found)
       IN  /\ loc' = [loc EXCEPT ![c].userWithRelations = found,
                                  ![c].cause = cause, ![c].pepper = pepper]
           /\ IF cause /= ""
              THEN /\ pc' = [pc EXCEPT ![c] = "done"]
                   /\ ret' = [ret EXCEPT ![c] = Thrown(LoginFailure(cause))]
              ELSE /\ pc' = [pc EXCEPT ![c] = "verify"]
                   /\ UNCHANGED ret
    /\ UNCHANGED <<procVars, db, clock, tx, log, reply, provisioned, deactivations, updates, faults>>

\* The comparison made without the secret option.
VerifyWithoutSecret(u, pass, secret) ==
    \E s \in u.security : \E h \in s.password : Argon2Verify(h, pass, "")

\* argon2.verify(userWithRelations.security.password, pass, {secret: this.pepper}).
VerifyPassword(u, pass, secret) ==
    \E s \in u.security : \E h \in s.password : Argon2Verify(h, pass, secret)

\* The lookup result returned as it is.
KeepSecurity(u) == u

\* const userResult = {...userWithRelations}; delete userResult.security.
StripSecurity(u) == [f \in DOMAIN u \ {"security"} |-> u[f]]

\* user.roles.map((role) => role.name)
RoleNames(roles) == [i \in 1..Len(roles) |-> roles[i].name]

\* A payload that carries the default role instead of the attached ones.
JwtPayloadDefaultRole(user) ==
    [sub |-> user.id, email |-> user.email, roles |-> <<"USER">>]

\* The payload login signs.
JwtPayloadOf(user) ==
    [sub |-> user.id, email |-> user.email, roles |-> RoleNames(user.roles)]

\* jwtService.sign(payload): the token carries the payload and is bound to
\* the signing key.
Sign(payload, key) == [payload |-> payload, signedWith |-> key]

\* await argon2.verify returns; on true the sanitized user and the signed
\* token are returned.
Verify(c) ==
    /\ pc[c] = "verify"
    /\ hist' = [hist EXCEPT ![c] = Append(@, "verify")]
    /\ LET u == CHOOSE x \in loc[c].userWithRelations : TRUE
           isValid == VerifyPassword(u, req[c].password, pepper)
           user == StripSecurity(u)
       IN  /\ loc' = [loc EXCEPT ![c].isValid = {isValid},
                                  ![c].cause = IF isValid THEN "" ELSE "mismatch"]
           /\ ret' = [ret EXCEPT ![c] =
                        IF isValid
                        THEN Returned([accessToken |-> Sign(JwtPayloadOf(user), jwtSecret),
                                       user |-> user])
                        ELSE Thrown(LoginFailure("mismatch"))]
    /\ pc' = [pc EXCEPT ![c] = "done"]
    /\ UNCHANGED <<procVars, db, clock, req, tx, log, reply, provisioned,
                   deactivations, updates, faults>>

(* ------------------------------ environment ---------------------------- *)
\* An administrator deactivates an Identity in the store (isActive := false).
Deactivate(id) ==
    /\ deactivations < MaxDeactivations
    /\ \E u \in UsersById(db, id) :
        /\ u.isActive
        /\ db' = [db EXCEPT !.users = (@ \ {u}) \cup {[u EXCEPT !.isActive = FALSE]}]
    /\ deactivations' = deactivations + 1
    /\ UNCHANGED <<procVars, clock, callVars, reply, provisioned, updates, faults>>

\* Ids a caller may name: those of the stored Identities and one that no
\* Identity has (the next uuidv7 is not in the store yet).
UserIds == {u.id : u \in db.users} \cup {clock}

(* ----------------------- UserService, JwtStrategy ---------------------- *)
MsgUserNotFound == "Usuario no encontrado"
MsgUserMissing == "Usuario no existe"
MsgUpdateFailed == "Error al actualizar el perfil"
MsgInactive == "User is inactive"

Reply(op, outcome) == [op |-> op, outcome |-> outcome]

\* findUnique({where, include: {roles: true}}) of UserService; throws
\* NotFoundException when no row matches.
FoundOrNotFound(d, found) ==
    IF found = {}
    THEN Thrown(NotFoundException(MsgUserNotFound))
    ELSE LET u == CHOOSE x \in found : TRUE
         IN  Returned(WithRoles(u, RolesOf(d, NoWrites, u.id)))

FindOneById(id) ==
    /\ up
    /\ reply' = Reply("findOneById", FoundOrNotFound(db, UsersById(db, id)))
    /\ UNCHANGED <<procVars, db, clock, callVars, provisioned, deactivations, updates, faults>>

FindOneByEmail(email) ==
    /\ up
    /\ reply' = Reply("findOneByEmail", FoundOrNotFound(db, UsersByEmail(db, email)))
    /\ UNCHANGED <<procVars, db, clock, callVars, provisioned, deactivations, updates, faults>>

\* Bodies of PATCH /users/:id that pass UpdateUserDto: at least one of
\* firstName, lastName, picture, role.
UpdateDtos ==
    { [firstName |-> "Bea"],
      [lastName |-> "Diaz", picture |-> "me.png"],
      [role |-> "ADMIN"] }

\* Columns of the users table that prisma.user.update may be given.
UserColumns == DOMAIN LegacyUser

\* The row after update({where: {id}, data: dto}).
ApplyUpdate(u, dto) ==
    [f \in DOMAIN u |->
        IF f \in DOMAIN dto
        THEN (IF f = "picture" THEN {dto[f]} ELSE dto[f])
        ELSE u[f]]

\* UserService.updateProfile.  data naming a field that is no column of
\* users (role was dropped from the table) is rejected by the client with
\* an error that has no code; a missing row is P2025.
UpdateProfile(id, dto) ==
    /\ up
    /\ updates < MaxUpdates
    /\ updates' = updates + 1
    /\ IF ~(DOMAIN dto \subseteq UserColumns)
       THEN /\ reply' = Reply("updateProfile",
                               Thrown(InternalServerErrorException(MsgUpdateFailed)))
            /\ db' = db
       ELSE IF UsersById(db, id) = {}
       THEN /\ reply' = Reply("updateProfile", Thrown(NotFoundException(MsgUserMissing)))
            /\ db' = db
       ELSE LET u == CHOOSE x \in UsersById(db, id) : TRUE IN
            /\ db' = [db EXCEPT !.users = (@ \ {u}) \cup {ApplyUpdate(u, dto)}]
            /\ reply' = Reply("updateProfile", Returned(ApplyUpdate(u, dto)))
    /\ UNCHANGED <<procVars, clock, callVars, provisioned, deactivations, faults>>

\* JwtStrategy.validate(payload): findOneById(sub) throws when the row is
\* missing; an inactive row is refused.
JwtValidate(sub) ==
    /\ up
    /\ LET found == FoundOrNotFound(db, UsersById(db, sub)) IN
        reply' = Reply("validate",
                       IF \E r \in found : r.ok /\ ~r.value.isActive
                       THEN Thrown(UnauthorizedException(MsgInactive))
                       ELSE found)
    /\ UNCHANGED <<procVars, db, clock, callVars, provisioned, deactivations, updates, faults>>

(* ---------------------------- specifications --------------------------- *)
\* Registration and authentication under concurrency, faults and restarts.
Next ==
    \/ \E p \in PepperStrings, k \in JwtSecrets : Bootstrap(p, k)
    \/ Exit
    \/ \E c \in Calls, dto \in RegisterDtos : Register(c, dto)
    \/ \E c \in Calls : HashReturns(c)
    \/ \E c \in Calls, e \in HashFaults : HashThrows(c, e)
    \/ \E c \in Calls : TxInsertUser(c)
    \/ \E c \in Calls : TxInsertSecurity(c)
    \/ \E c \in Calls : TxConnectRole(c)
    \/ \E c \in Calls : TxCommit(c)
    \/ \E c \in Calls, e \in StorageFaults : TxFault(c, e)
    \/ \E c \in Calls, dto \in LoginDtos : Login(c, dto)
    \/ \E c \in Calls : Verify(c)
    \/ \E id \in UserIds : Deactivate(id)

Spec == Init /\ [][Next]_vars

\* The whole public interface on a seeded store, without injected faults
\* and restarts.
NextApi ==
    \/ \E p \in PepperStrings, k \in JwtSecrets : Bootstrap(p, k)
    \/ \E c \in ApiCalls, dto \in RegisterDtos : Register(c, dto)
    \/ \E c \in ApiCalls : HashReturns(c)
    \/ \E c \in ApiCalls : TxInsertUser(c)
    \/ \E c \in ApiCalls : TxInsertSecurity(c)
    \/ \E c \in ApiCalls : TxConnectRole(c)
    \/ \E c \in ApiCalls : TxCommit(c)
    \/ \E c \in ApiCalls, dto \in LoginDtos : Login(c, dto)
    \/ \E c \in ApiCalls : Verify(c)
    \/ \E id \in UserIds : Deactivate(id)
    \/ \E id \in UserIds : FindOneById(id)
    \/ \E email \in Emails : FindOneByEmail(email)
    \/ \E id \in UserIds, dto \in UpdateDtos : UpdateProfile(id, dto)
    \/ \E sub \in UserIds : JwtValidate(sub)

\* The store of a deployment whose seed has run.
InitApi == Init /\ RoleUser \in db.roles

SpecApi == InitApi /\ [][NextApi]_vars

\* Every operation that reads a secret, over process starts and exits.
NextSecrets ==
    \/ \E p \in PepperStrings, k \in JwtSecrets : Bootstrap(p, k)
    \/ Exit
    \/ \E c \in ApiCalls, dto \in RegisterDtos : Register(c, dto)
    \/ \E c \in ApiCalls : HashReturns(c)
    \/ \E c \in ApiCalls : TxInsertUser(c)
    \/ \E c \in ApiCalls : TxInsertSecurity(c)
    \/ \E c \in ApiCalls : TxConnectRole(c)
    \/ \E c \in ApiCalls : TxCommit(c)
    \/ \E c \in ApiCalls, dto \in LoginDtos : Login(c, dto)
    \/ \E c \in ApiCalls : Verify(c)
    \/ \E sub \in UserIds : JwtValidate(sub)

SpecSecrets == InitApi /\ [][NextSecrets]_vars

(* ----------------------- RegisterDto validation ----------------------- *)
\* A password seen by the validators is the sequence of its characters.
\* [A-Z], [a-z] and \d of PASSWORD_REGEX.
UpperCase ==
    {"A", "B", "C", "D", "E", "F", "G", "H", "I", "J", "K", "L",
      "M", "N", "O", "P", "Q", "R", "S", "T", "U", "V", "W", "X", "Y", "Z"}
LowerCase ==
    {"a", "b", "c", "d", "e", "f", "g", "h", "i", "j", "k", "l",
      "m", "n", "o", "p", "q", "r", "s", "t", "u", "v", "w", "x", "y", "z"}
Digits ==
    {"0", "1", "2", "3", "4", "5", "6", "7", "8", "9"}

\* The characters that a dot of the pattern does not match.
LineTerminators == {"\n", "\r"}

IsUpper(ch) == ch \in UpperCase
IsLower(ch) == ch \in LowerCase
IsDigit(ch) == ch \in Digits
\* \W: any character that is not of [A-Za-z0-9_].
IsNonWord(ch) == ~(IsUpper(ch) \/ IsLower(ch) \/ IsDigit(ch) \/ ch = "_")

\* .* can run over s[i..j]: no line terminator among them.
DotStar(s, i, j) == \A k \in i..j : s[k] \notin LineTerminators

\* Membership in the character classes the pattern names.
InClass(ch, class) ==
    IF class = "d" THEN IsDigit(ch)
    ELSE IF class = "W" THEN IsNonWord(ch)
    ELSE IF class = "A-Z" THEN IsUpper(ch)
    ELSE IsLower(ch)

\* (?=.*X) at position i: a character of class X occurs at some j >= i
\* with only dot-matched characters between (\W+ is satisfied by its
\* first character).
Ahead(s, i, class) ==
    \E j \in i..Len(s) : DotStar(s, i, j - 1) /\ InClass(s[j], class)

\* The pattern tried at position i:
\* ((?=.*\d)|(?=.*\W+)) (?![.\n]) (?=.*[A-Z]) (?=.*[a-z]) .* $
\* with $ the end of the input (no m flag).
MatchAt(s, i) ==
    /\ Ahead(s, i, "d") \/ Ahead(s, i, "W")
    /\ i <= Len(s) => s[i] \notin {".", "\n"}
    /\ Ahead(s, i, "A-Z")
    /\ Ahead(s, i, "a-z")
    /\ DotStar(s, i, Len(s))

\* @Matches(PASSWORD_REGEX): RegExp.prototype.test, which tries the
\* pattern at every position of the input, the pattern having no ^.
MatchesPasswordRegex(s) == \E i \in 1..(Len(s) + 1) : MatchAt(s, i)

\* @MinLength(8) and @MaxLength(64).
PasswordMinLength == 8
PasswordMaxLength == 64

MsgTooShort == "La contrasena debe tener al menos 8 caracteres"
MsgTooLong == "La contrasena es demasiado larga"
MsgWeak == "La contrasena es debil: requiere mayuscula, minuscula y numero/caracter especial."

\* The messages of the constraints of RegisterDto.password that s fails.
PasswordErrors(s) ==
    {m \in {MsgTooShort, MsgTooLong, MsgWeak} :
        \/ m = MsgTooShort /\ Len(s) < PasswordMinLength
        \/ m = MsgTooLong /\ Len(s) > PasswordMaxLength
        \/ m = MsgWeak /\ ~MatchesPasswordRegex(s)}

BadRequestException(message) ==
    [status |-> 400, error |-> "Bad Request", message |-> message]

\* Characters of the candidate passwords: one of each class the pattern
\* tells apart.
PasswordAlphabet == {"A", "b", "1", "_", ".", "!", "\n"}

\* Candidate passwords: up to MaxPrefix free characters followed by a run
\* of one character that brings the length next to both limits.
Prefixes == UNION {[1..n -> PasswordAlphabet] : n \in 0..MaxPrefix}
Run(n, ch) == [i \in 1..n |-> ch]
RunLengths ==
    {0, PasswordMinLength - MaxPrefix, PasswordMinLength - MaxPrefix + 1,
     PasswordMaxLength - MaxPrefix, PasswordMaxLength - MaxPrefix + 1}
CandidatePasswords ==
    {prefix \o Run(n, ch) : prefix \in Prefixes, n \in RunLengths, ch \in {"b", "1"}}

CandidateDtos ==
    { [op |-> "register", email |-> "a@x.com", password |-> p,
       firstName |-> "Ana", lastName |-> "Lopez"] : p \in CandidatePasswords }

\* A POST /auth/register body is at the global ValidationPipe of a
\* running process.
InitPolicy ==
    /\ up = TRUE
    /\ pepper = "pepper-1"
    /\ jwtSecret = "jwt-key"
    /\ boots = 1
    /\ db = [users |-> {}, security |-> {}, roles |-> {RoleUser, RoleAdmin}, userRoles |-> {}]
    /\ clock = 1
    /\ pc = [c \in Calls |-> IF c = 1 THEN "pipe" ELSE "idle"]
    /\ req \in {[c \in Calls |-> IF c = 1 THEN dto ELSE NoRequest] : dto \in CandidateDtos}
    /\ loc = [c \in Calls |-> NoLocals]
    /\ tx = [c \in Calls |-> NoWrites]
    /\ ret = [c \in Calls |-> {}]
    /\ hist = [c \in Calls |-> <<>>]
    /\ log = [c \in Calls |-> {}]
    /\ reply = NoReply
    /\ provisioned = {}
    /\ deactivations = 0
    /\ updates = 0
    /\ faults = 0

\* The pipe validates the password of the body: the DTO goes on to the
\* handler, or the request ends with the messages of the failed constraints.
ValidateRegisterDto(c) ==
    /\ up
    /\ pc[c] = "pipe"
    /\ pc' = [pc EXCEPT ![c] = "done"]
    /\ ret' = [ret EXCEPT ![c] =
                 IF PasswordErrors(req[c].password) = {}
                 THEN Returned(req[c])
                 ELSE Thrown(BadRequestException(PasswordErrors(req[c].password)))]
    /\ UNCHANGED <<procVars, db, clock, req, loc, tx, hist, log, reply, provisioned,
                   deactivations, updates, faults>>

NextPolicy == \E c \in Calls : ValidateRegisterDto(c)

\* The validation of RegisterDto.password over the candidate passwords.
SpecPolicy == InitPolicy /\ [][NextPolicy]_vars

(* ------------------------- reading the outcomes ------------------------ *)
Done(c) == pc[c] = "done"
IsRegister(c) == req[c].op = "register"
IsLogin(c) == req[c].op = "login"
Succeeded(c) == Done(c) /\ \E r \in ret[c] : r.ok
Failed(c) == Done(c) /\ \E r \in ret[c] : ~r.ok
ValueOf(c) == (CHOOSE r \in ret[c] : TRUE).value
ErrorOf(c) == (CHOOSE r \in ret[c] : TRUE).error
Duplicate == ConflictException(MsgDuplicate)

RegistersOf(email) == {c \in Calls : IsRegister(c) /\ req[c].email = email}

\* The email had no Identity before any register call of this run.
FreshEmail(email) == \A u \in UsersByEmail(db, email) : u.id \in provisioned

\* A fault that is not the email uniqueness violation struck the call.
Faulted(c) == loc[c].hashError /= {} \/ loc[c].dbError \ {UniqueEmailViolation} /= {}

(* ------------------------------- C1 ------------------------------------ *)
\* C1, as stated: for an email with no Identity before, once every register
\* call issued with it has ended, exactly one of them returned a created
\* Identity and every other one failed with the duplicate-identity outcome.
C1_ExactlyOneAlways ==
    \A e \in Emails :
        (FreshEmail(e) /\ RegistersOf(e) /= {} /\ \A c \in RegistersOf(e) : Done(c))
        => /\ Cardinality({c \in RegistersOf(e) : Succeeded(c)}) = 1
           /\ \A c \in RegistersOf(e) : Failed(c) => ErrorOf(c) = Duplicate

\* C1, amended: at no time do two Identities share an email; among the
\* register calls issued with one email at most one returns a created
\* Identity; every ended call that met no hashing fault, no missing USER
\* role and no other storage fault either is that success or failed with
\* the duplicate-identity outcome, be it from the pre-check or from the
\* unique-constraint violation; and the duplicate-identity outcome is only
\* given while an Identity with that email exists.
C1_OneIdentityPerEmail ==
    /\ \A u, v \in db.users : u.email = v.email => u = v
    /\ \A c, d \in Calls :
          (IsRegister(c) /\ IsRegister(d) /\ Succeeded(c) /\ Succeeded(d)
           /\ req[c].email = req[d].email) => c = d
    /\ \A c \in Calls :
          (IsRegister(c) /\ Done(c) /\ ~Faulted(c))
          => (Succeeded(c) \/ ErrorOf(c) = Duplicate)
    /\ \A c \in Calls :
          (IsRegister(c) /\ Failed(c) /\ ErrorOf(c) = Duplicate)
          => Exists(db, req[c].email)

\* Two register calls raced on one email: both passed the pre-check, one
\* committed, the other met the unique-constraint violation.
C1_Witness ==
    \E c, d \in Calls :
        /\ IsRegister(c) /\ IsRegister(d) /\ req[c].email = req[d].email
        /\ Succeeded(c)
        /\ Failed(d) /\ loc[d].exists = {FALSE} /\ loc[d].dbError = {UniqueEmailViolation}
        /\ ErrorOf(d) = Duplicate

(* ------------------------------- C2 ------------------------------------ *)
\* The committed rows that belong to the ids call c drew.
RowsOf(c) ==
    [users |-> {u \in db.users : u.id \in loc[c].userId},
     security |-> {s \in db.security : s.id \in loc[c].securityId \/ s.userId \in loc[c].userId},
     userRoles |-> {e \in db.userRoles : e.B \in loc[c].userId}]

\* Every Identity created by register (every one but the Identity the
\* store held before) has exactly one Credential Record, holding a password
\* hash, and an edge to the USER role; a register call that ended in an
\* error has no users, user_security or _UserRoles row in the store.
C2_Complete ==
    /\ \A u \in db.users :
          u.id /= LegacyUser.id
          => /\ Cardinality(SecurityOf(db, u.id)) = 1
             /\ \A s \in SecurityOf(db, u.id) : s.password /= {}
             /\ EdgeRow(RoleUser.id, u.id) \in db.userRoles
             /\ RoleUser \in db.roles
    /\ \A c \in Calls :
          (IsRegister(c) /\ Failed(c)) => RowsOf(c) = NoWrites

\* A step of a register call changes the committed store only when the
\* call returns the created Identity.
C2_Step ==
    \A c \in Calls :
        (pc[c] /= pc'[c] /\ req'[c].op = "register" /\ db' /= db)
        => (pc'[c] = "done" /\ \E r \in ret'[c] : r.ok)

\* C2: provisioning is all-or-nothing.  In every committed state of the
\* store (what exists, login and the finders read) every Identity created
\* by register is complete, and a register call that ends in an error
\* (duplicate, missing USER role, hashing fault, unknown storage fault)
\* leaves the store as it was.
C2_AllOrNothing == []C2_Complete /\ [][C2_Step]_vars

\* One register call committed while another, which had already written its
\* users row inside its transaction, failed and was rolled back.
C2_Witness ==
    \E c, d \in Calls :
        /\ IsRegister(c) /\ Succeeded(c) /\ RowsOf(c).users /= {}
        /\ IsRegister(d) /\ Failed(d) /\ loc[d].userId /= {} /\ loc[d].dbError /= {}

(* ------------------------------- C3 ------------------------------------ *)
\* Call c is a register call that ends in this step.
RegisterEnds(c) == pc[c] /= "done" /\ pc'[c] = "done" /\ req'[c].op = "register"

\* C3: a register call that found the email absent and met no hashing or
\* storage fault (so the USER role was seeded) succeeds; a successful call
\* returns the created Identity, whose role list is exactly the single role
\* USER and which carries neither a credential record nor a password; and
\* the step in which it returns adds exactly one users row, one
\* user_security row and one role edge to the store.
C3_RegisterStep ==
    \A c \in Calls :
        RegisterEnds(c) =>
            LET r == CHOOSE x \in ret'[c] : TRUE IN
            /\ (loc'[c].exists = {FALSE} /\ loc'[c].hashError = {} /\ loc'[c].dbError = {})
               => r.ok
            /\ r.ok =>
                /\ r.value.email = req'[c].email
                /\ r.value.roles = <<RoleUser>>
                /\ "security" \notin DOMAIN r.value
                /\ "password" \notin DOMAIN r.value
                /\ [f \in DOMAIN r.value \ {"roles"} |-> r.value[f]] \in db'.users \ db.users
                /\ Cardinality(db'.users) = Cardinality(db.users) + 1
                /\ Cardinality(db'.security) = Cardinality(db.security) + 1
                /\ Cardinality(db'.userRoles) = Cardinality(db.userRoles) + 1

C3_RegisterSucceeds == [][C3_RegisterStep]_vars

\* A register call of an unused email has returned the created Identity.
C3_Witness ==
    \E c \in Calls :
        /\ IsRegister(c) /\ Succeeded(c)
        /\ loc[c].exists = {FALSE}
        /\ ValueOf(c).id \in provisioned

(* ------------------------------- C4 ------------------------------------ *)
LoginCauses == {"absent", "inactive", "no-security", "no-password", "mismatch"}

\* The record the lookup of login call c returned.
FoundBy(c) == CHOOSE u \in loc[c].userWithRelations : TRUE

\* C4: every failed login has one and the same caller-visible outcome,
\* UnauthorizedException 'Credenciales invalidas', whichever cause fired: no
\* Identity, Identity inactive, no Credential Record, no password hash, or
\* password mismatch; two failed logins cannot be told apart.
C4_UniformFailure ==
    /\ \A c \in Calls :
          (IsLogin(c) /\ Failed(c))
          => /\ loc[c].cause \in LoginCauses
             /\ ErrorOf(c) = UnauthorizedException(MsgCredentials)
    /\ \A c, d \in Calls :
          (IsLogin(c) /\ Failed(c) /\ IsLogin(d) /\ Failed(d)) => ret[c] = ret[d]

\* A correct password on an inactive account and a wrong password on an
\* active account have both failed.
C4_Witness ==
    \E c, d \in Calls :
        /\ IsLogin(c) /\ Failed(c) /\ loc[c].cause = "inactive"
        /\ VerifyPassword(FoundBy(c), req[c].password, loc[c].pepper)
        /\ IsLogin(d) /\ Failed(d) /\ loc[d].cause = "mismatch"
        /\ FoundBy(d).isActive

(* ------------------------------- C5 ------------------------------------ *)
\* Register call r created the Identity that login call c looked up.
LoginOfRegistered(c, r) ==
    /\ IsLogin(c) /\ Done(c)
    /\ IsRegister(r) /\ Succeeded(r)
    /\ loc[c].userWithRelations /= {}
    /\ FoundBy(c).id = ValueOf(r).id

\* C5: a login for an Identity that register created, found active and with
\* the Credential Record register wrote, succeeds exactly when its password
\* equals the registered one and the process pepper is the one in use at
\* registration; with another pepper it fails with invalid credentials.
C5_LoginIffRegisteredPassword ==
    \A c, r \in Calls :
        (LoginOfRegistered(c, r) /\ FoundBy(c).isActive)
        => /\ Succeeded(c) <=> (req[c].password = req[r].password /\ loc[c].pepper = loc[r].pepper)
           /\ Failed(c) => ErrorOf(c) = UnauthorizedException(MsgCredentials)

\* After a restart with another pepper, a login with the registered
\* password has failed.
C5_Witness ==
    \E c, r \in Calls :
        /\ LoginOfRegistered(c, r) /\ FoundBy(c).isActive
        /\ req[c].password = req[r].password
        /\ loc[c].pepper /= loc[r].pepper
        /\ Failed(c)

\* A login with the registered password under the registration pepper has
\* succeeded, and so the equivalence of C5 is met from both sides.
C5_WitnessSuccess ==
    \E c, r \in Calls : LoginOfRegistered(c, r) /\ Succeeded(c)

(* ------------------------------- C6 ------------------------------------ *)
Verifying(c) == pc[c] = "verify" \/ \E i \in 1..Len(hist[c]) : hist[c][i] = "verify"

\* C6: in every login, the hash comparison runs only after the lookup, and
\* only when the lookup found an Identity that is active and has a stored
\* password hash; no login succeeds unless a hash comparison returned true.
C6_VerifyAfterChecks ==
    \A c \in Calls :
        IsLogin(c) =>
            /\ Verifying(c)
               => /\ hist[c][1] = "findUnique"
                  /\ loc[c].userWithRelations /= {}
                  /\ FoundBy(c).isActive
                  /\ \E s \in FoundBy(c).security : s.password /= {}
            /\ Succeeded(c)
               => /\ hist[c] = <<"findUnique", "verify">>
                  /\ loc[c].isValid = {TRUE}

\* One login failed on an inactive Identity without any hash comparison and
\* another succeeded after its comparison.
C6_Witness ==
    \E c, d \in Calls :
        /\ IsLogin(c) /\ Failed(c) /\ loc[c].cause = "inactive" /\ hist[c] = <<"findUnique">>
        /\ IsLogin(d) /\ Succeeded(d)

(* ------------------------------- C7 ------------------------------------ *)
\* The values returned so far: by register and login, and by the last
\* finder, profile update or JWT validation.
ReturnedUsers ==
    {ValueOf(c) : c \in {x \in Calls : IsRegister(x) /\ Succeeded(x)}}
    \cup {ValueOf(c).user : c \in {x \in Calls : IsLogin(x) /\ Succeeded(x)}}
    \cup {r.value : r \in {x \in reply.outcome : x.ok}}

\* C7: no operation of the public interface returns a value that contains a
\* Credential Record or a password hash, and the identity a successful
\* login returns is the looked-up record with the credential record removed.
C7_NoCredentialReturned ==
    /\ \A v \in ReturnedUsers :
          /\ "security" \notin DOMAIN v
          /\ "password" \notin DOMAIN v
          /\ "hashedPassword" \notin DOMAIN v
    /\ \A c \in Calls :
          (IsLogin(c) /\ Succeeded(c))
          => /\ DOMAIN ValueOf(c) = {"accessToken", "user"}
             /\ DOMAIN ValueOf(c).user = DOMAIN FoundBy(c) \ {"security"}
             /\ \A f \in DOMAIN ValueOf(c).user : ValueOf(c).user[f] = FoundBy(c)[f]
             /\ DOMAIN ValueOf(c).accessToken.payload = {"sub", "email", "roles"}

\* A login of an Identity that has a password hash has succeeded and a
\* finder has returned an Identity.
C7_Witness ==
    \E c \in Calls :
        /\ IsLogin(c) /\ Succeeded(c)
        /\ \E x \in FoundBy(c).security : x.password /= {}
        /\ reply.op \in {"findOneById", "findOneByEmail", "validate", "updateProfile"}
        /\ \E r \in reply.outcome : r.ok

(* ------------------------------- C8 ------------------------------------ *)
\* The names of the roles joined to user id in the committed store.
AttachedRoleNames(d, id) == {r.name : r \in {x \in d.roles : EdgeRow(x.id, id) \in d.userRoles}}

SeqRange(q) == {q[i] : i \in 1..Len(q)}

C8_WitnessTwoRoles ==
    \E c \in Calls :
        /\ IsLogin(c) /\ Succeeded(c)
        /\ ValueOf(c).accessToken.payload.roles = <<"USER", "ADMIN">>

(* ------------------------------- C9 ------------------------------------ *)
CallerMessages ==
    {MsgDuplicate, MsgOverloaded, MsgSecurity, MsgRoles, MsgRegister}

\* C9: the translation of storage faults is total and exact.  A uniqueness
\* violation on the email column gives the duplicate-identity outcome; a
\* missing USER role (P2025) gives the configuration-fault outcome; every
\* other storage fault, a uniqueness violation on another column included,
\* gives the unknown-storage-fault outcome; and what reaches the caller is
\* a status, an error name and one of the fixed messages, never the
\* storage error, its code or its target.
C9_FailureTranslation ==
    \A c \in Calls :
        (IsRegister(c) /\ Done(c)) =>
            /\ \A e \in loc[c].dbError :
                /\ Failed(c)
                /\ (e.code = "P2002" /\ <<"email">> \in e.target)
                   => ErrorOf(c) = ConflictException(MsgDuplicate)
                /\ e.code = "P2025"
                   => ErrorOf(c) = InternalServerErrorException(MsgRoles)
                /\ (e.code /= "P2025" /\ ~(e.code = "P2002" /\ <<"email">> \in e.target))
                   => ErrorOf(c) = InternalServerErrorException(MsgRegister)
                /\ e = UniqueEmailViolation => Exists(db, req[c].email)
                /\ e = RecordNotFound => RoleUser \notin db.roles
            /\ Failed(c)
               => /\ DOMAIN ErrorOf(c) = {"status", "error", "message"}
                  /\ ErrorOf(c).message \in CallerMessages

\* A uniqueness violation on a column other than email has been translated.
C9_Witness ==
    \E c \in Calls :
        /\ IsRegister(c) /\ Failed(c)
        /\ loc[c].dbError = {DbError(TRUE, "P2002", {<<"id">>})}
        /\ ErrorOf(c) = InternalServerErrorException(MsgRegister)

(* ------------------------------- C10 ----------------------------------- *)
\* The call ended on a configuration, resource or unknown fault.
InternalFault(c) ==
    /\ IsRegister(c) /\ Failed(c)
    /\ loc[c].hashError /= {} \/ loc[c].dbError \ {UniqueEmailViolation} /= {}

MessageByFault(c) ==
    IF \E e \in loc[c].hashError :
          e.isError /\ ("memory" \in SeqRange(e.message) \/ "allocation" \in SeqRange(e.message))
    THEN MsgOverloaded
    ELSE IF loc[c].hashError /= {} THEN MsgSecurity
    ELSE IF loc[c].dbError = {RecordNotFound} THEN MsgRoles
    ELSE MsgRegister

C11_PreCheckRejects ==
    \A c \in Calls :
        (IsRegister(c) /\ loc[c].exists = {TRUE})
        => /\ Failed(c)
           /\ ErrorOf(c) = Duplicate
           /\ hist[c] = <<"exists">>
           /\ loc[c].hashedPassword = {} /\ loc[c].hashError = {}
           /\ loc[c].userId = {} /\ loc[c].securityId = {} /\ loc[c].dbError = {}
           /\ tx[c] = NoWrites

\* A register call was rejected by the pre-check for an email that an
\* earlier register call of this run had created.
C11_Witness ==
    \E c, d \in Calls :
        /\ IsRegister(c) /\ loc[c].exists = {TRUE} /\ Failed(c)
        /\ IsRegister(d) /\ Succeeded(d) /\ req[d].email = req[c].email

(* ------------------------------- C12 ----------------------------------- *)
\* The Identity of every login that has succeeded carries a last-login
\* timestamp.
C12_LoginStamped ==
    \A c \in Calls :
        (IsLogin(c) /\ Succeeded(c))
        => \A u \in UsersById(db, ValueOf(c).user.id) : u.lastLogin /= {}

\* A step that is neither a profile update, nor the return of a
\* successful login, nor the administrator's deactivation leaves every
\* stored Identity as it was.
C12_Frame ==
    (/\ updates' = updates
     /\ deactivations' = deactivations
     /\ ~\E c \in Calls : pc[c] = "verify" /\ pc'[c] = "done" /\ \E r \in ret'[c] : r.ok)
    => db.users \subseteq db'.users

\* C12, as stated: a successful login sets the last-login timestamp of its
\* Identity, and apart from profile update and login no operation (failed
\* login, exists, the finders, JWT validation, register of another email)
\* changes a field of an existing Identity.
C12_LoginSetsLastLogin == []C12_LoginStamped /\ [][C12_Frame]_vars

\* The second half of C12 alone.
C12_OnlyUpdateAndLoginMutate == [][C12_Frame]_vars

(* ------------------------------- C13 ----------------------------------- *)
\* C13: no register call awaits the hashing function more than once or
\* opens the provisioning transaction more than once; a call whose
\* transaction met the unique-constraint violation on email has ended
\* with the duplicate-identity outcome after that one transaction, which
\* was rolled back, and logged the race once.
C13_NoRetries ==
    \A c \in Calls :
        IsRegister(c) =>
            /\ Awaited(c, "exists") = 1
            /\ Awaited(c, "hash") <= 1
            /\ Awaited(c, "transaction") <= 1
            /\ loc[c].dbError = {UniqueEmailViolation}
               => /\ Failed(c) /\ ErrorOf(c) = Duplicate
                  /\ hist[c] = <<"exists", "hash", "transaction">>
                  /\ tx[c] = NoWrites
                  /\ Cardinality(log[c]) = 1

\* A register call lost the race on its email: its one transaction met the
\* unique-constraint violation while the email's Identity was committed
\* by another call.
C13_Witness ==
    \E c, d \in Calls :
        /\ IsRegister(c) /\ Done(c) /\ loc[c].exists = {FALSE}
        /\ loc[c].dbError = {UniqueEmailViolation}
        /\ Awaited(c, "transaction") = 1
        /\ c /= d /\ IsRegister(d) /\ req[d].email = req[c].email

(* ------------------------------- C14 ----------------------------------- *)
\* The diagnostic of a hashing failure tells of memory or allocation
\* exhaustion: it is an Error whose message has the word memory or the
\* word allocation.
IndicatesExhaustion(e) ==
    e.isError /\ ("memory" \in SeqRange(e.message) \/ "allocation" \in SeqRange(e.message))

\* A register call whose hashing failed has ended in an error, awaited
\* nothing after the hashing, holds no hash and no ids and opened no
\* transaction; the error is the 'temporarily overloaded' outcome when the
\* diagnostic tells of memory or allocation exhaustion and the generic
\* security error otherwise; it is made of a status, an error name and one
\* of those two fixed messages, and the diagnostic is in the log only.
C14_Classified ==
    \A c \in Calls :
        \A e \in loc[c].hashError :
            /\ IsRegister(c) /\ Failed(c)
            /\ hist[c] = <<"exists", "hash">>
            /\ loc[c].hashedPassword = {} /\ loc[c].userId = {} /\ loc[c].dbError = {}
            /\ tx[c] = NoWrites
            /\ IndicatesExhaustion(e)
               => ErrorOf(c) = InternalServerErrorException(MsgOverloaded)
            /\ ~IndicatesExhaustion(e)
               => ErrorOf(c) = InternalServerErrorException(MsgSecurity)
            /\ DOMAIN ErrorOf(c) = {"status", "error", "message"}
            /\ ErrorOf(c).message \in {MsgOverloaded, MsgSecurity}
            /\ \E entry \in log[c] : entry.detail = {e}

\* The step in which the hashing of a call fails leaves the store as it was.
C14_Step ==
    \A c \in Calls :
        (loc[c].hashError = {} /\ loc'[c].hashError /= {}) => db' = db

\* C14: when the hashing step of register fails, the call ends in an error
\* without starting the provisioning transaction and with the store
\* unchanged; a diagnostic of memory or allocation exhaustion surfaces as
\* the 'temporarily overloaded' outcome, any other hashing failure as the
\* generic internal security error, and the caller-visible error never
\* carries the library's diagnostic.
C14_HashFaultClassified == []C14_Classified /\ [][C14_Step]_vars

\* A hashing failure whose message names an allocation error has ended a
\* register call with the 'temporarily overloaded' outcome.
C14_Witness ==
    \E c \in Calls :
        /\ IsRegister(c) /\ Failed(c)
        /\ loc[c].hashError = {[isError |-> TRUE, message |-> <<"Memory", "allocation", "error">>]}
        /\ ErrorOf(c).message = MsgOverloaded

\* A hashing failure that is no Error has ended a register call with the
\* generic security error.
C14_WitnessGeneric ==
    \E c \in Calls :
        /\ IsRegister(c) /\ Failed(c)
        /\ \E e \in loc[c].hashError : ~e.isError
        /\ ErrorOf(c).message = MsgSecurity

(* ------------------------------- C15 ----------------------------------- *)
IsAlphanumeric(ch) == IsUpper(ch) \/ IsLower(ch) \/ IsDigit(ch)

\* The strength policy as the claim words it: length 8 to 64, an uppercase
\* letter, a lowercase letter, and a digit or a non-alphanumeric symbol.
StrongPassword(s) ==
    /\ Len(s) >= 8 /\ Len(s) <= 64
    /\ \E i \in 1..Len(s) : IsUpper(s[i])
    /\ \E i \in 1..Len(s) : IsLower(s[i])
    /\ \E i \in 1..Len(s) : IsDigit(s[i]) \/ ~IsAlphanumeric(s[i])

\* C15, as stated: the validators of RegisterDto.password (MinLength 8,
\* MaxLength 64, PASSWORD_REGEX) accept a password exactly when the
\* strength policy holds of it.
C15_ValidatorIsPolicy ==
    \A c \in Calls :
        (IsRegister(c) /\ Done(c) /\ hist[c] = <<>>)
        => (Succeeded(c) <=> StrongPassword(req[c].password))

\* The validators never accept a password the policy refuses.
C15_AcceptedIsStrong ==
    \A c \in Calls :
        (IsRegister(c) /\ Succeeded(c) /\ hist[c] = <<>>)
        => StrongPassword(req[c].password)

(* ------------------------------- C16 ----------------------------------- *)
\* A process that is up holds a non-empty pepper and a non-empty signing
\* key; while none is up no request is in flight; every request in flight
\* runs under the pepper its process loaded, and every token was signed
\* with a non-empty key.
C16_SecretsLoaded ==
    /\ up => (pepper /= "" /\ jwtSecret /= "")
    /\ ~up => (pepper = "" /\ jwtSecret = "" /\ \A c \in Calls : ~InFlight(c))
    /\ \A c \in Calls : InFlight(c) => (loc[c].pepper = pepper /\ pepper /= "")
    /\ \A c \in Calls : (IsLogin(c) /\ Succeeded(c)) => ValueOf(c).accessToken.signedWith /= ""

\* While the process lives its secrets do not change, and a step of
\* register, login or token validation is taken only in a process that
\* holds both secrets.
C16_Step ==
    /\ (up /\ up') => (pepper' = pepper /\ jwtSecret' = jwtSecret)
    /\ (up' = up /\ <<pc, ret, reply, db>>' /= <<pc, ret, reply, db>>)
       => (up /\ pepper /= "" /\ jwtSecret /= "")

\* C16: a start with AUTH_PEPPER or JWT_SECRET absent or empty throws in
\* the constructors, so no register, login or token validation runs in a
\* process that lacks either secret; once loaded, the pepper is not
\* modified for the life of the process.
C16_FailFastOnSecrets == []C16_SecretsLoaded /\ [][C16_Step]_vars

\* A second process runs under another pepper than the process in which a
\* request was served, and a token validation has run.
C16_Witness ==
    /\ up /\ boots > 1
    /\ \E c \in Calls : Done(c) /\ loc[c].pepper \notin {"", pepper}
    /\ reply.op = "validate"

(* ------------------------------- C17 ----------------------------------- *)
\* C17, as stated: a token validation either returns the Identity, which
\* is then active, or fails with an Unauthorized outcome: 'User not found'
\* when the subject has no Identity, 'User is inactive' when it is
\* inactive.
C17_ValidateUnauthorized ==
    reply.op = "validate"
    => \A r \in reply.outcome :
          \/ r.ok /\ r.value.isActive
          \/ /\ ~r.ok
             /\ r.error \in {UnauthorizedException("User not found"),
                              UnauthorizedException(MsgInactive)}

\* A token validation returns an Identity only when it is active, and
\* otherwise fails.
C17_OnlyActiveAccepted ==
    reply.op = "validate"
    => \A r \in reply.outcome : r.ok => r.value.isActive

(* ------------------------------- C18 ----------------------------------- *)
\* What a profile update must leave alone: every stored Identity keeps its
\* id, its email and its active flag, no Identity but the addressed one
\* changes at all, and the Credential Records, the roles and the role
\* edges stay as they were.
C18_Frame(id) ==
    /\ \A u \in db.users :
          \E v \in db'.users :
              /\ v.id = u.id /\ v.email = u.email /\ v.isActive = u.isActive
              /\ u.id /= id => v = u
    /\ Cardinality(db'.users) = Cardinality(db.users)
    /\ db'.security = db.security
    /\ db'.roles = db.roles
    /\ db'.userRoles = db.userRoles

\* A profile update of an id that no Identity has fails with NotFound and
\* leaves the whole store unchanged.
C18_Missing(id) ==
    UsersById(db, id) = {}
    => /\ \A r \in reply'.outcome : ~r.ok /\ r.error.status = 404
       /\ db' = db

C18_UpdateStep ==
    \A id \in UserIds, dto \in UpdateDtos :
        UpdateProfile(id, dto) => (C18_Frame(id) /\ C18_Missing(id))

\* C18, as stated: a profile update never changes the Identity's email,
\* its active flag, its Credential Record or its password hash, and never
\* changes any other Identity; when the id does not exist it fails with
\* NotFound and leaves the whole store unchanged.
C18_UpdateTouchesProfileOnly == [][C18_UpdateStep]_vars

\* The first half of C18 alone, with the store unchanged for a missing id.
C18_UpdateFrame ==
    [][\A id \in UserIds, dto \in UpdateDtos :
          UpdateProfile(id, dto)
          => (C18_Frame(id) /\ (UsersById(db, id) = {} => db' = db))]_vars

====
